---- MODULE Spec2Model ----
(***************************************************************************)
(* Model of api_server.py: an HTTP facade over an Elasticsearch backend.   *)
(* One action per endpoint handler; each action runs the whole request:    *)
(* the credential dependency, request validation, the backend check, the   *)
(* backend calls and the shaping of the response.  The backend (the        *)
(* Elasticsearch client) is the environment: every reply it can give       *)
(* (a value, a malformed document, an exception) is an input of the        *)
(* action.                                                                 *)
(***************************************************************************)
EXTENDS Integers, Sequences, FiniteSets, TLC

VARIABLES es_none, req, probe, calls, countReply, searchReply,
          status, headers, body, unhandled, normIn, normOut

vars == <<es_none, req, probe, calls, countReply, searchReply,
          status, headers, body, unhandled, normIn, normOut>>

-----------------------------------------------------------------------------
(* Bounds of the model *)

\* longest hit list a backend reply carries
MaxHits == 2
\* longest bucket list an aggregation reply carries
MaxBuckets == 2
\* longest identifier batch enumerated element by element
MaxShortBatch == 2

-----------------------------------------------------------------------------
(* Configuration (module level of api_server.py) *)

DEFAULT_INDEX_PATTERN == "fbus*,smfb*,smfbgermania*"
API_USERNAME == "admin"
API_PASSWORD == "admin123"
ES_HOST == "http://72.61.17.220:9200"

\* Field(..., min_items=1, max_items=1000)
MinItems == 1
MaxItems == 1000

-----------------------------------------------------------------------------
(* JSON values of a backend hit.  A string value is a sequence of          *)
(* one-character strings so that the int coercion can read its digits.     *)

Null == [t |-> "null", i |-> 0, s |-> <<>>]
IntV(n) == [t |-> "int", i |-> n, s |-> <<>>]
StrV(cs) == [t |-> "str", i |-> 0, s |-> cs]
ListV == [t |-> "list", i |-> 0, s |-> <<>>]

IntFields == {"uid"}
StrFields == {"first_name", "last_name", "email", "phone", "gender",
              "location", "hometown", "relationship_status"}
PersonFields == IntFields \cup StrFields

Digits == [c \in {"0", "1", "2", "3", "4", "5", "6", "7", "8", "9"} |->
             CASE c = "0" -> 0 [] c = "1" -> 1 [] c = "2" -> 2 [] c = "3" -> 3
               [] c = "4" -> 4 [] c = "5" -> 5 [] c = "6" -> 6 [] c = "7" -> 7
               [] c = "8" -> 8 [] c = "9" -> 9]

IsNumeric(cs) == Len(cs) > 0 /\ \A k \in 1..Len(cs) : cs[k] \in DOMAIN Digits

RECURSIVE ParseInt(_)
ParseInt(cs) ==
    IF cs = <<>> THEN 0
    ELSE 10 * ParseInt(SubSeq(cs, 1, Len(cs) - 1)) + Digits[cs[Len(cs)]]

\* Optional[int]: None stays None, an int is kept, a string of digits is
\* coerced, anything else is a validation error.
IntFieldOk(v) ==
    \/ v.t \in {"null", "int"}
    \/ v.t = "str" /\ IsNumeric(v.s)

CoerceInt(v) == IF v.t = "str" THEN IntV(ParseInt(v.s)) ELSE v

\* Optional[str]: None stays None, a string is kept, a list is a
\* validation error.
StrFieldOk(v) == v.t \in {"null", "str"}

CoerceStr(v) == v

FieldOk(f, v) == IF f \in IntFields THEN IntFieldOk(v) ELSE StrFieldOk(v)

Coerce(f, v) == IF f \in IntFields THEN CoerceInt(v) ELSE CoerceStr(v)

\* PersonResponse(**hit['_source']) raises ValidationError or not
NormalizeOk(src) == \A f \in PersonFields \cap DOMAIN src : FieldOk(f, src[f])

\* variant: a field missing from the hit defaults to the empty string
PersonResponse_EmptyDefault(src) ==
    [f \in PersonFields |->
        IF f \in DOMAIN src THEN Coerce(f, src[f])
        ELSE IF f \in IntFields THEN Null ELSE StrV(<<>>)]

\* PersonResponse(**hit['_source']): the nine declared fields, each taken
\* from the hit when present and None (the declared default) otherwise;
\* keys that are not declared fields are ignored.
PersonResponse(src) ==
    [f \in PersonFields |-> IF f \in DOMAIN src THEN Coerce(f, src[f]) ELSE Null]

-----------------------------------------------------------------------------
(* Inputs: requests *)

Users == {"admin", "root"}
Passwords == {"admin123", "wrong"}
IndexPatterns == {DEFAULT_INDEX_PATTERN, "fbus*"}
UidVals == {1, 42}
Emails == {"a@x.org", "b@x.org"}

AuthEndpoints == {"/search/uid", "/search/uids", "/search/email", "/stats"}
SearchEndpoints == {"/search/uid", "/search/uids", "/search/email"}

\* an identifier batch of n members
LongBatch(n) == [k \in 1..n |-> 1 + (k % 2)]

\* batches enumerated element by element, and batches around max_items
Batches ==
    UNION {[1..n -> UidVals] : n \in 0..MaxShortBatch}
      \cup {LongBatch(n) : n \in {MaxItems - 1, MaxItems, MaxItems + 1}}

NoRequest ==
    [ep |-> "none", username |-> "", password |-> "", uid |-> 0,
     uid_ok |-> TRUE, uids |-> <<>>, email |-> "", index_pattern |-> ""]

-----------------------------------------------------------------------------
(* Inputs: what the backend answers *)

PingOutcomes == {"true", "false", "raise"}
ErrMsgs == {"ConnectionTimeout", "NotFoundError"}
Totals == {0, 100}

LitHit ==
    [f \in PersonFields \cup {"age"} |->
        CASE f = "uid" -> IntV(42)
          [] f = "age" -> IntV(30)
          [] f = "first_name" -> StrV(<<"A">>)
          [] f = "last_name" -> StrV(<<"Z">>)
          [] f = "email" -> StrV(<<"a", "@", "x">>)
          [] f = "phone" -> StrV(<<"5", "5", "5">>)
          [] f = "gender" -> StrV(<<"m">>)
          [] f = "location" -> StrV(<<"L">>)
          [] f = "hometown" -> StrV(<<"H">>)
          [] f = "relationship_status" -> StrV(<<"s">>)]

\* the hit whose keys are S, with the given uid and first_name values
HitOf(S, u, fn) ==
    [f \in S |-> IF f = "uid" THEN u
                 ELSE IF f = "first_name" THEN fn ELSE LitHit[f]]

UidHitVals == {IntV(42), IntV(1), Null, StrV(<<"7">>), StrV(<<"x">>), ListV}
NameHitVals == {StrV(<<"A">>), Null, ListV}

\* every subset of the nine fields and the extra key
FullPool ==
    {HitOf(S, u, fn) : S \in SUBSET (PersonFields \cup {"age"}),
                       u \in UidHitVals, fn \in NameHitVals}

\* the hits the handlers are run on
SmallPool ==
    {HitOf({"uid", "first_name"}, IntV(42), StrV(<<"A">>)),
     HitOf(PersonFields, IntV(1), StrV(<<"A">>)),
     HitOf({"uid", "age", "email"}, IntV(1), Null),
     HitOf({"uid", "first_name"}, StrV(<<"x">>), StrV(<<"A">>)),
     HitOf({"uid"}, StrV(<<"7">>), Null)}

HitLists(max) ==
    UNION {[1..n -> {[_source |-> h] : h \in SmallPool}] : n \in 0..max}

Min(a, b) == IF a < b THEN a ELSE b

NoReply == [st |-> "none", msg |-> "", resp |-> [none |-> TRUE]]
Raise(m) == [st |-> "raise", msg |-> m, resp |-> [none |-> TRUE]]
Ok(r) == [st |-> "ok", msg |-> "", resp |-> r]

BucketPool == {[key |-> g, doc_count |-> c] : g \in {"male", "female"}, c \in {60, 40}}
BucketLists(max) == UNION {[1..n -> BucketPool] : n \in 0..max}

\* es.search(index, body): raises, or returns a document.  The backend
\* returns at most body.size hits, and at most aggs.*.terms.size buckets.
EsSearch(b) ==
    {Raise(m) : m \in ErrMsgs}
      \cup {Ok([timed_out |-> TRUE])}
      \cup IF "aggs" \in DOMAIN b
           THEN {Ok([hits |-> [hits |-> <<>>],
                     aggregations |-> [genders |-> [buckets |-> bs]]])
                   : bs \in BucketLists(Min(MaxBuckets, b.aggs.genders.terms.size))}
           ELSE {Ok([hits |-> [hits |-> hs]])
                   : hs \in HitLists(IF "size" \in DOMAIN b
                                     THEN Min(MaxHits, b.size) ELSE MaxHits)}

\* es.count(index): raises, or returns a document
EsCount == {Raise(m) : m \in ErrMsgs}
             \cup {Ok([count |-> n]) : n \in Totals}
             \cup {Ok([timed_out |-> TRUE])}

-----------------------------------------------------------------------------
(* Authentication and the backend check *)

\* secrets.compare_digest on two ASCII strings: equality
compare_digest(a, b) == a = b

\* variant: either part matching is enough
verify_credentials_Or(username, password) ==
    LET correct_username == compare_digest(username, API_USERNAME)
        correct_password == compare_digest(password, API_PASSWORD)
    IN  correct_username \/ correct_password

\* verify_credentials: TRUE when it returns the username, FALSE when it
\* raises the 401
verify_credentials(username, password) ==
    LET correct_username == compare_digest(username, API_USERNAME)
        correct_password == compare_digest(password, API_PASSWORD)
    IN  correct_username /\ correct_password

\* the HTTPException raised by verify_credentials
Unauthorized ==
    [status |-> 401, headers |-> {<<"WWW-Authenticate", "Basic">>},
     body |-> [detail |-> "Invalid credentials"], unhandled |-> FALSE]

\* the HTTPException raised by check_elasticsearch
Unavailable ==
    [status |-> 503, headers |-> {},
     body |-> [detail |-> "Elasticsearch unavailable"], unhandled |-> FALSE]

\* request validation failed (path parameter or body model)
Unprocessable ==
    [status |-> 422, headers |-> {},
     body |-> [detail |-> "validation error"], unhandled |-> FALSE]

\* variant: a generic detail instead of str(e)
ServerError_Generic(m) ==
    [status |-> 500, headers |-> {},
     body |-> [detail |-> "Internal Server Error"], unhandled |-> FALSE]

\* HTTPException(status_code=500, detail=str(e))
ServerError(m) ==
    [status |-> 500, headers |-> {}, body |-> [detail |-> m], unhandled |-> FALSE]

\* an exception that no handler code catches: the server's generic 500
Uncaught ==
    [status |-> 500, headers |-> {},
     body |-> [text |-> "Internal Server Error"], unhandled |-> TRUE]

Success(b) == [status |-> 200, headers |-> {}, body |-> b, unhandled |-> FALSE]

\* `es is None or not es.ping()`: whether ping is called at all
PingCalled(none) == ~none

\* variant: only `es is None` is tested, the result of ping is dropped
check_elasticsearch_NoPingTest(none, ping) ==
    IF none THEN "unavailable"
    ELSE IF ping = "raise" THEN "raise"
    ELSE "ok"

\* check_elasticsearch: "ok" when it returns, "unavailable" when it raises
\* the 503, "raise" when es.ping() raises (nothing catches it here)
check_elasticsearch(none, ping) ==
    IF none THEN "unavailable"
    ELSE IF ping = "raise" THEN "raise"
    ELSE IF ping = "false" THEN "unavailable"
    ELSE "ok"

\* variant: max_items left out
UIDSearchRequestOk_NoMax(uids) == Len(uids) >= MinItems

\* UIDSearchRequest: uids has min_items=1, max_items=1000
UIDSearchRequestOk(uids) == Len(uids) >= MinItems /\ Len(uids) <= MaxItems

-----------------------------------------------------------------------------
(* Query documents *)

UidQuery(uid) == [query |-> [term |-> [uid |-> uid]]]

\* variant: a fixed page size instead of the batch length
UidsQuery_FixedSize(uids) == [query |-> [terms |-> [uid |-> uids]], size |-> 10]

UidsQuery(uids) == [query |-> [terms |-> [uid |-> uids]], size |-> Len(uids)]

EmailQuery(email) == [query |-> [term |-> ("email.keyword" :> email)]]

StatsQuery ==
    [size |-> 0,
     aggs |-> [genders |-> [terms |-> [field |-> "gender.keyword", size |-> 10]]]]

PingCall == [op |-> "ping"]
CountCall(idx) == [op |-> "count", index |-> idx]
SearchCall(idx, b) == [op |-> "search", index |-> idx, body |-> b]

-----------------------------------------------------------------------------
(* The try block of the three search handlers *)

ValidationMsg == "validation error for PersonResponse"

\* variant: a hit that fails validation is skipped
ShapeResults_Skip(reply) ==
    IF reply.st = "raise" THEN ServerError(reply.msg)
    ELSE IF "hits" \notin DOMAIN reply.resp THEN ServerError("'hits'")
    ELSE LET Good(hit) == NormalizeOk(hit._source)
             hits == SelectSeq(reply.resp.hits.hits, Good)
             results == [k \in 1..Len(hits) |-> PersonResponse(hits[k]._source)]
         IN  Success([success |-> TRUE, count |-> Len(results),
                      results |-> results])

\* variant: the first hit is left out of the results
ShapeResults_DropFirst(reply) ==
    IF reply.st = "raise" THEN ServerError(reply.msg)
    ELSE IF "hits" \notin DOMAIN reply.resp THEN ServerError("'hits'")
    ELSE LET hits == reply.resp.hits.hits
         IN  IF \E k \in 1..Len(hits) : ~NormalizeOk(hits[k]._source)
             THEN ServerError(ValidationMsg)
             ELSE LET results == [k \in 1..(Len(hits) - 1) |->
                                    PersonResponse(hits[k + 1]._source)]
                  IN  Success([success |-> TRUE, count |-> Len(results),
                               results |-> results])

\* results = [PersonResponse(**hit['_source']) for hit in response['hits']['hits']]
\* then SearchResponse(success=True, count=len(results), results=results);
\* any exception becomes HTTPException(500, detail=str(e))
ShapeResults(reply) ==
    IF reply.st = "raise" THEN ServerError(reply.msg)
    ELSE IF "hits" \notin DOMAIN reply.resp THEN ServerError("'hits'")
    ELSE LET hits == reply.resp.hits.hits
         IN  IF \E k \in 1..Len(hits) : ~NormalizeOk(hits[k]._source)
             THEN ServerError(ValidationMsg)
             ELSE LET results == [k \in 1..Len(hits) |-> PersonResponse(hits[k]._source)]
                  IN  Success([success |-> TRUE, count |-> Len(results),
                               results |-> results])

\* variant: a failed aggregation yields the count with no buckets
ShapeStats_Partial(cr, sr) ==
    IF cr.st = "raise" THEN ServerError(cr.msg)
    ELSE IF "count" \notin DOMAIN cr.resp THEN ServerError("'count'")
    ELSE IF sr.st = "raise" \/ "aggregations" \notin DOMAIN sr.resp
    THEN Success([success |-> TRUE, total_documents |-> cr.resp.count,
                  genders |-> <<>>])
    ELSE LET buckets == sr.resp.aggregations.genders.buckets
         IN  Success([success |-> TRUE,
                      total_documents |-> cr.resp.count,
                      genders |-> [k \in 1..Len(buckets) |->
                                     [gender |-> buckets[k].key,
                                      count |-> buckets[k].doc_count]]])

\* the try block of get_statistics, after both calls were made or the
\* first one raised
ShapeStats(cr, sr) ==
    IF cr.st = "raise" THEN ServerError(cr.msg)
    ELSE IF "count" \notin DOMAIN cr.resp THEN ServerError("'count'")
    ELSE IF sr.st = "raise" THEN ServerError(sr.msg)
    ELSE IF "aggregations" \notin DOMAIN sr.resp THEN ServerError("'aggregations'")
    ELSE LET buckets == sr.resp.aggregations.genders.buckets
         IN  Success([success |-> TRUE,
                      total_documents |-> cr.resp.count,
                      genders |-> [k \in 1..Len(buckets) |->
                                     [gender |-> buckets[k].key,
                                      count |-> buckets[k].doc_count]]])

\* whether es.count(...)['count'] yields a value, so that the handler goes
\* on to the aggregation
CountYields(cr) == cr.st = "ok" /\ "count" \in DOMAIN cr.resp

-----------------------------------------------------------------------------
(* State *)

Init ==
    /\ es_none \in BOOLEAN
    /\ req = NoRequest
    /\ probe = "none"
    /\ calls = <<>>
    /\ countReply = NoReply
    /\ searchReply = NoReply
    /\ status = 0
    /\ headers = {}
    /\ body = [none |-> TRUE]
    /\ unhandled = FALSE
    /\ normIn = <<>>
    /\ normOut = [ok |-> TRUE, person |-> PersonResponse(<<>>)]

\* no request is being handled
Idle == req = NoRequest

\* the response leaves the server
Respond(r) ==
    /\ status' = r.status
    /\ headers' = r.headers
    /\ body' = r.body
    /\ unhandled' = r.unhandled

\* a request that ends before any query: no query call, no reply
NoQuery ==
    /\ countReply' = NoReply
    /\ searchReply' = NoReply

\* the part of a request that comes before the handler's try block:
\* the credential dependency, then request validation, then
\* check_elasticsearch.  TRUE when the request ended there.
Gate(username, password, shape_ok, ping) ==
    IF ~verify_credentials(username, password)
    THEN /\ Respond(Unauthorized) /\ NoQuery
         /\ probe' = "none" /\ calls' = <<>>
    ELSE IF ~shape_ok
    THEN /\ Respond(Unprocessable) /\ NoQuery
         /\ probe' = "none" /\ calls' = <<>>
    ELSE /\ check_elasticsearch(es_none, ping) # "ok"
         /\ Respond(IF check_elasticsearch(es_none, ping) = "raise"
                    THEN Uncaught ELSE Unavailable)
         /\ NoQuery
         /\ probe' = IF PingCalled(es_none) THEN ping ELSE "none"
         /\ calls' = IF PingCalled(es_none) THEN <<PingCall>> ELSE <<>>

\* the request reaches the handler's try block
Passes(username, password, shape_ok, ping) ==
    /\ verify_credentials(username, password)
    /\ shape_ok
    /\ check_elasticsearch(es_none, ping) = "ok"

-----------------------------------------------------------------------------
(* Endpoints *)

Request(ep, username, password) ==
    [NoRequest EXCEPT !.ep = ep, !.username = username, !.password = password]

\* GET /
root ==
    /\ Idle
    /\ req' = [NoRequest EXCEPT !.ep = "/"]
    /\ Respond(Success([message |-> "Facebook Users Search API",
                        version |-> "1.0.0", docs |-> "/docs",
                        health |-> "/health"]))
    /\ NoQuery
    /\ probe' = "none"
    /\ calls' = <<>>
    /\ UNCHANGED <<es_none, normIn, normOut>>

\* GET /health
health_check ==
    /\ Idle
    /\ \E ping \in PingOutcomes :
        LET es_connected == IF es_none THEN FALSE ELSE ping = "true"
        IN  /\ req' = [NoRequest EXCEPT !.ep = "/health"]
            /\ probe' = IF es_none THEN "none" ELSE ping
            /\ calls' = IF es_none THEN <<>> ELSE <<PingCall>>
            /\ Respond(Success(
                   [status |-> IF es_connected THEN "healthy" ELSE "degraded",
                    elasticsearch_connected |-> es_connected,
                    elasticsearch_host |-> ES_HOST,
                    api_version |-> "1.0.0"]))
            /\ NoQuery
            /\ UNCHANGED <<es_none, normIn, normOut>>

\* GET /search/uid/{uid}
search_by_uid ==
    /\ Idle
    /\ \E username \in Users, password \in Passwords, uid \in UidVals,
       uid_ok \in BOOLEAN, index_pattern \in IndexPatterns, ping \in PingOutcomes :
        /\ req' = [Request("/search/uid", username, password) EXCEPT
                     !.uid = uid, !.uid_ok = uid_ok,
                     !.index_pattern = index_pattern]
        /\ \/ Gate(username, password, uid_ok, ping)
           \/ /\ Passes(username, password, uid_ok, ping)
              /\ \E reply \in EsSearch(UidQuery(uid)) :
                    /\ probe' = ping
                    /\ calls' = <<PingCall, SearchCall(index_pattern, UidQuery(uid))>>
                    /\ countReply' = NoReply
                    /\ searchReply' = reply
                    /\ Respond(ShapeResults(reply))
        /\ UNCHANGED <<es_none, normIn, normOut>>

\* POST /search/uids
search_multiple_uids ==
    /\ Idle
    /\ \E username \in Users, password \in Passwords, uids \in Batches,
       index_pattern \in IndexPatterns, ping \in PingOutcomes :
        /\ req' = [Request("/search/uids", username, password) EXCEPT
                     !.uids = uids, !.index_pattern = index_pattern]
        /\ \/ Gate(username, password, UIDSearchRequestOk(uids), ping)
           \/ /\ Passes(username, password, UIDSearchRequestOk(uids), ping)
              /\ \E reply \in EsSearch(UidsQuery(uids)) :
                    /\ probe' = ping
                    /\ calls' = <<PingCall, SearchCall(index_pattern, UidsQuery(uids))>>
                    /\ countReply' = NoReply
                    /\ searchReply' = reply
                    /\ Respond(ShapeResults(reply))
        /\ UNCHANGED <<es_none, normIn, normOut>>

\* GET /search/email/{email}
search_by_email ==
    /\ Idle
    /\ \E username \in Users, password \in Passwords, email \in Emails,
       index_pattern \in IndexPatterns, ping \in PingOutcomes :
        /\ req' = [Request("/search/email", username, password) EXCEPT
                     !.email = email, !.index_pattern = index_pattern]
        /\ \/ Gate(username, password, TRUE, ping)
           \/ /\ Passes(username, password, TRUE, ping)
              /\ \E reply \in EsSearch(EmailQuery(email)) :
                    /\ probe' = ping
                    /\ calls' = <<PingCall, SearchCall(index_pattern, EmailQuery(email))>>
                    /\ countReply' = NoReply
                    /\ searchReply' = reply
                    /\ Respond(ShapeResults(reply))
        /\ UNCHANGED <<es_none, normIn, normOut>>

\* GET /stats
get_statistics ==
    /\ Idle
    /\ \E username \in Users, password \in Passwords,
       index_pattern \in IndexPatterns, ping \in PingOutcomes :
        /\ req' = [Request("/stats", username, password) EXCEPT
                     !.index_pattern = index_pattern]
        /\ \/ Gate(username, password, TRUE, ping)
           \/ /\ Passes(username, password, TRUE, ping)
              /\ \E cr \in EsCount :
                    /\ probe' = ping
                    /\ countReply' = cr
                    /\ IF CountYields(cr)
                       THEN \E sr \in EsSearch(StatsQuery) :
                              /\ calls' = <<PingCall, CountCall(index_pattern),
                                            SearchCall(index_pattern, StatsQuery)>>
                              /\ searchReply' = sr
                              /\ Respond(ShapeStats(cr, sr))
                       ELSE /\ calls' = <<PingCall, CountCall(index_pattern)>>
                            /\ searchReply' = NoReply
                            /\ Respond(ShapeStats(cr, NoReply))
        /\ UNCHANGED <<es_none, normIn, normOut>>

\* the response was serialized; the request's objects are discarded
Discard ==
    /\ ~Idle
    /\ req' = NoRequest
    /\ probe' = "none"
    /\ calls' = <<>>
    /\ NoQuery
    /\ status' = 0
    /\ headers' = {}
    /\ body' = [none |-> TRUE]
    /\ unhandled' = FALSE
    /\ UNCHANGED <<es_none, normIn, normOut>>

Next ==
    \/ Discard
    \/ root
    \/ health_check
    \/ search_by_uid
    \/ search_multiple_uids
    \/ search_by_email
    \/ get_statistics

Spec == Init /\ [][Next]_vars

-----------------------------------------------------------------------------
(* The result normalizer on its own, over every hit of FullPool *)

Normalize ==
    /\ normIn = <<>>
    /\ \E h \in FullPool :
        /\ normIn' = h
        /\ normOut' = IF NormalizeOk(h)
                      THEN [ok |-> TRUE, person |-> PersonResponse(h)]
                      ELSE [ok |-> FALSE, person |-> PersonResponse(<<>>)]
        /\ UNCHANGED <<es_none, req, probe, calls, countReply, searchReply,
                       status, headers, body, unhandled>>

NormNext == Normalize

NormSpec == Init /\ [][NormNext]_vars

-----------------------------------------------------------------------------
(* Vocabulary of the properties, stated on the request and the replies *)

CredsOk == req.username = "admin" /\ req.password = "admin123"

ShapeOk ==
    CASE req.ep = "/search/uid" -> req.uid_ok
      [] req.ep = "/search/uids" -> Len(req.uids) \in 1..1000
      [] OTHER -> TRUE

QueryCalls == {k \in 1..Len(calls) : calls[k].op \in {"count", "search"}}

\* a value of a type the field cannot hold
BadValue(f, v) ==
    \/ v.t = "list"
    \/ f = "uid" /\ v.t = "str"
         /\ (v.s = <<>> \/ \E k \in 1..Len(v.s) :
                v.s[k] \notin {"0", "1", "2", "3", "4", "5", "6", "7", "8", "9"})

Malformed(h) == \E f \in DOMAIN h \cap PersonFields : BadValue(f, h[f])

\* every declared field that is present holds a value of the declared type
WellTyped(h) ==
    \A f \in DOMAIN h \cap PersonFields :
        h[f].t \in (IF f = "uid" THEN {"int", "null"} ELSE {"str", "null"})

HasHits == searchReply.st = "ok" /\ "hits" \in DOMAIN searchReply.resp
Hits == searchReply.resp.hits.hits

-----------------------------------------------------------------------------
\* C1: on an authenticated endpoint, when the probe returned false, or the
\* client was never constructed and the request got past the credential
\* and shape checks, the request ends with 503 and no count, search or
\* aggregate call was issued.
C1_UnavailableIs503 ==
    (/\ req.ep \in AuthEndpoints
     /\ \/ probe = "false"
        \/ es_none /\ CredsOk /\ ShapeOk)
    => /\ status = 503
       /\ QueryCalls = {}
       /\ searchReply = NoReply /\ countReply = NoReply

C1_Witness ==
    /\ req.ep = "/search/uids" /\ probe = "false"
    /\ calls = <<PingCall>> /\ status = 503

\* C2: on an authenticated endpoint a pair other than the configured one
\* ends with the same 401 response whichever part is wrong, carrying
\* WWW-Authenticate: Basic, with no backend operation; the configured pair
\* is never answered 401.
C2_BadCredentialsAre401 ==
    req.ep \in AuthEndpoints =>
        IF CredsOk THEN status # 401
        ELSE /\ status = 401
             /\ headers = {<<"WWW-Authenticate", "Basic">>}
             /\ body = [detail |-> "Invalid credentials"]
             /\ calls = <<>> /\ probe = "none"

C2_Witness ==
    /\ req.ep = "/stats" /\ req.username = "admin" /\ req.password = "wrong"
    /\ status = 401

\* C3: with valid credentials a batch of 1..1000 identifiers is accepted
\* and reaches the backend whole; a batch of 0 or more than 1000 is
\* answered 422 before any backend call.
C3_BatchLengthBounds ==
    (req.ep = "/search/uids" /\ CredsOk) =>
        IF Len(req.uids) \in 1..1000
        THEN /\ status # 422
             /\ probe = "true" => /\ Len(calls) = 2
                                  /\ calls[2].op = "search"
                                  /\ calls[2].body.query.terms.uid = req.uids
        ELSE /\ status = 422
             /\ calls = <<>> /\ probe = "none"

C3_Witness ==
    /\ req.ep = "/search/uids" /\ Len(req.uids) = 1000
    /\ status = 200 /\ Len(calls) = 2

\* C4: the query sent for an accepted batch is a terms query on uid over
\* the batch's values, with a size equal to the batch length.
C4_BatchQuerySize ==
    (req.ep = "/search/uids" /\ Len(calls) >= 2) =>
        /\ calls[2].op = "search"
        /\ calls[2].index = req.index_pattern
        /\ DOMAIN calls[2].body = {"query", "size"}
        /\ calls[2].body.query = [terms |-> [uid |-> req.uids]]
        /\ calls[2].body.size = Len(req.uids)

\* every member of the batch matched, and every one is returned
C4_Witness ==
    /\ req.ep = "/search/uids" /\ Len(req.uids) = 2
    /\ status = 200 /\ body.count = 2

\* C5: normalizing a hit whose present fields are well typed succeeds;
\* each present field carries the hit's value, each absent field is null,
\* and no other key appears.
C5_NormalizePartial ==
    WellTyped(normIn) =>
        /\ normOut.ok
        /\ DOMAIN normOut.person =
             {"uid", "first_name", "last_name", "email", "phone", "gender",
              "location", "hometown", "relationship_status"}
        /\ \A f \in DOMAIN normOut.person :
              normOut.person[f] = IF f \in DOMAIN normIn THEN normIn[f] ELSE Null

C5_Witness ==
    /\ DOMAIN normIn = {"uid", "email", "age"}
    /\ normIn["uid"] = IntV(42)
    /\ normOut.ok
    /\ normOut.person["first_name"] = Null

\* C6 as stated: when one hit of the reply is malformed, the request still
\* succeeds and returns the well-formed hits.
C6_MalformedHitSkipped ==
    (/\ req.ep \in SearchEndpoints /\ HasHits
     /\ \E k \in 1..Len(Hits) : Malformed(Hits[k]._source))
    => /\ status = 200
       /\ \A k \in 1..Len(Hits) :
             ~Malformed(Hits[k]._source) =>
                 \E j \in 1..Len(body.results) :
                     body.results[j] = PersonResponse(Hits[k]._source)

\* C6 amended: when one hit of the reply is malformed, the whole request
\* ends with 500 carrying the validation error, and no hit is returned.
C6_MalformedHitAborts ==
    (/\ req.ep \in SearchEndpoints /\ HasHits
     /\ \E k \in 1..Len(Hits) : Malformed(Hits[k]._source))
    => /\ status = 500
       /\ body = [detail |-> "validation error for PersonResponse"]

C6_Witness ==
    /\ req.ep = "/search/uids" /\ HasHits /\ Len(Hits) = 2
    /\ ~Malformed(Hits[1]._source) /\ Malformed(Hits[2]._source)
    /\ status = 500

\* C7: /stats calls count first and the gender aggregation second; when
\* both yield, the response carries the count and every bucket in backend
\* order; when either fails the response is an error without
\* total_documents or genders.
C7_StatsAllOrNothing ==
    (req.ep = "/stats" /\ probe = "true") =>
        /\ Len(calls) \in {2, 3}
        /\ calls[2] = [op |-> "count", index |-> req.index_pattern]
        /\ Len(calls) = 3 =>
              calls[3] = [op |-> "search", index |-> req.index_pattern,
                          body |-> [size |-> 0,
                                    aggs |-> [genders |-> [terms |->
                                       [field |-> "gender.keyword", size |-> 10]]]]]
        /\ IF /\ countReply.st = "ok" /\ "count" \in DOMAIN countReply.resp
              /\ searchReply.st = "ok" /\ "aggregations" \in DOMAIN searchReply.resp
           THEN LET buckets == searchReply.resp.aggregations.genders.buckets
                IN  /\ status = 200
                    /\ body.success = TRUE
                    /\ body.total_documents = countReply.resp.count
                    /\ Len(body.genders) = Len(buckets)
                    /\ \A k \in 1..Len(buckets) :
                          body.genders[k] = [gender |-> buckets[k].key,
                                             count |-> buckets[k].doc_count]
           ELSE /\ status >= 400
                /\ "total_documents" \notin DOMAIN body
                /\ "genders" \notin DOMAIN body

C7_Witness ==
    /\ req.ep = "/stats" /\ status = 200 /\ Len(calls) = 3
    /\ body = [success |-> TRUE, total_documents |-> 100,
               genders |-> <<[gender |-> "male", count |-> 60],
                             [gender |-> "female", count |-> 40]>>]

\* C8: a SearchResult has success true, count equal to the number of
\* results, and one Person per backend hit in the backend's order.
C8_CountIsLen ==
    (req.ep \in SearchEndpoints /\ "results" \in DOMAIN body) =>
        /\ status = 200
        /\ body.success = TRUE
        /\ body.count = Len(body.results)
        /\ HasHits
        /\ Len(body.results) = Len(Hits)
        /\ \A k \in 1..Len(Hits) :
              body.results[k] = PersonResponse(Hits[k]._source)

C8_Witness ==
    /\ req.ep = "/search/uid" /\ req.uid = 42 /\ status = 200
    /\ body.count = 1
    /\ body.results[1]["uid"] = IntV(42)
    /\ body.results[1]["first_name"] = StrV(<<"A">>)
    /\ \A f \in PersonFields \ {"uid", "first_name"} : body.results[1][f] = Null

\* C9 as stated: a probe that errors internally counts as false: /health
\* answers degraded, and an authenticated endpoint answers 503; /health
\* answers healthy exactly when the probe returned true.
C9_ProbeNeverThrows ==
    /\ req.ep = "/health" =>
          /\ status = 200
          /\ body.status = (IF probe = "true" THEN "healthy" ELSE "degraded")
          /\ body.elasticsearch_connected = (probe = "true")
    /\ (req.ep \in AuthEndpoints /\ probe = "raise") =>
          /\ status = 503
          /\ ~unhandled

\* C10: once the backend check passed, a failure of the query or of the
\* normalization ends the request with 500 carrying the error's text;
\* nothing escapes the handler and a failed request carries no results.
C10_FailuresAre500 ==
    (req.ep \in AuthEndpoints /\ probe = "true") =>
        /\ ~unhandled
        /\ searchReply.st = "raise" =>
              status = 500 /\ body = [detail |-> searchReply.msg]
        /\ countReply.st = "raise" =>
              status = 500 /\ body = [detail |-> countReply.msg]
        /\ status # 200 => status = 500 /\ DOMAIN body = {"detail"}

C10_Witness ==
    /\ req.ep = "/search/email" /\ searchReply.st = "raise"
    /\ status = 500 /\ body.detail = "ConnectionTimeout"

====
